---- MODULE Spec2Model ----
(***************************************************************************)
(* A model of the CHIP-8 interpreter core of src/src/chip8.rs: the Chip8    *)
(* struct, its constructor, tick, run_opcode/exec and start_cycle.  The     *)
(* host (main.rs, macroquad) calls tick and start_cycle in any order and    *)
(* answers the key and random queries exec makes.                           *)
(***************************************************************************)
EXTENDS Integers, Sequences, FiniteSets, TLC

VARIABLES ram, screen, screen_update, v, i, pc, stack, deelay, sound_timer,
          panicked, diag, pressed, hist, budget

vars == <<ram, screen, screen_update, v, i, pc, stack, deelay, sound_timer,
          panicked, diag, pressed, hist, budget>>

\* ------------------------------------------------------------------ sizes
MemSize == 4096
ScreenWidth == 64
ScreenHeight == 32
RomBase == 512
FontBase == 80

\* Executed instructions per run (the host loop itself never ends).
MaxSteps == 8

Byte == 0..255
Reg == 0..15

\* ------------------------------------------------------- machine integers
RECURSIVE BitAnd(_, _)
BitAnd(a, b) ==
    IF a = 0 \/ b = 0 THEN 0
    ELSE (a % 2) * (b % 2) + 2 * BitAnd(a \div 2, b \div 2)

RECURSIVE BitOr(_, _)
BitOr(a, b) ==
    IF a = 0 THEN b
    ELSE IF b = 0 THEN a
    ELSE (IF a % 2 = 1 \/ b % 2 = 1 THEN 1 ELSE 0) + 2 * BitOr(a \div 2, b \div 2)

RECURSIVE BitXor(_, _)
BitXor(a, b) ==
    IF a = 0 THEN b
    ELSE IF b = 0 THEN a
    ELSE ((a + b) % 2) + 2 * BitXor(a \div 2, b \div 2)

Shr(a, n) == a \div (2 ^ n)
AsU8(a) == a % 256
AsU16(a) == a % 65536

\* ------------------------------------------------------------------- font
font ==
    << 240, 144, 144, 144, 240,   32,  96,  32,  32, 112,
       240,  16, 240, 128, 240,  240,  16, 240,  16, 240,
       144, 144, 240,  16,  16,  240, 128, 240,  16, 240,
       240, 128, 240, 144, 240,  240,  16,  32,  64,  64,
       240, 144, 240, 144, 240,  240, 144, 240,  16, 240,
       240, 144, 240, 144, 144,  224, 144, 224, 144, 224,
       240, 128, 128, 128, 240,  224, 144, 144, 144, 224,
       240, 128, 240, 128, 240,  240, 128, 240, 128, 128 >>

\* ------------------------------------------------------------ constructor
\* Chip8::new: the ROM at 0x200, the font at 0x50, everything else zero.
new(rom_data) ==
    [ v |-> [r \in Reg |-> 0],
      i |-> 0,
      pc |-> RomBase,
      ram |-> [a \in 0..(MemSize - 1) |->
                 IF a >= FontBase /\ a < FontBase + Len(font)
                 THEN font[a - FontBase + 1]
                 ELSE IF a >= RomBase /\ a < RomBase + Len(rom_data)
                 THEN rom_data[a - RomBase + 1]
                 ELSE 0],
      deelay |-> 0,
      sound_timer |-> 0,
      screen |-> [y \in 0..(ScreenHeight - 1) |-> [x \in 0..(ScreenWidth - 1) |-> 0]],
      screen_update |-> FALSE,
      stack |-> << >>,
      panicked |-> FALSE,
      diag |-> "",
      pressed |-> {} ]

\* A Rust panic (failed assert!, index out of bounds, checked overflow):
\* the process ends with the state as it was when the panic was raised.
\* diag is what the last run_opcode wrote with println!/eprintln!, pressed
\* the keys the host last reported held, to get_keys_pressed() or is_key_down().
Panic(m) == [m EXCEPT !.panicked = TRUE]

\* --------------------------------------------------------------- keyboard
MappedKeys ==
    {"Key1", "Key2", "Key3", "Key4", "Q", "W", "E", "R",
     "A", "S", "D", "F", "Z", "X", "C", "V"}

keypad_to_keyboard(old_key) ==
    CASE old_key = 1 -> "Key1"
      [] old_key = 2 -> "Key2"
      [] old_key = 3 -> "Key3"
      [] old_key = 12 -> "Key4"
      [] old_key = 4 -> "Q"
      [] old_key = 5 -> "W"
      [] old_key = 6 -> "E"
      [] old_key = 13 -> "R"
      [] old_key = 7 -> "A"
      [] old_key = 8 -> "S"
      [] old_key = 9 -> "D"
      [] old_key = 14 -> "F"
      [] old_key = 10 -> "Z"
      [] old_key = 0 -> "X"
      [] old_key = 11 -> "C"
      [] old_key = 15 -> "V"
      [] OTHER -> "Unknown"

keyboard_to_keypad(key) ==
    CASE key = "Key1" -> 1
      [] key = "Key2" -> 2
      [] key = "Key3" -> 3
      [] key = "Key4" -> 12
      [] key = "Q" -> 4
      [] key = "W" -> 5
      [] key = "E" -> 6
      [] key = "R" -> 13
      [] key = "A" -> 7
      [] key = "S" -> 8
      [] key = "D" -> 9
      [] key = "F" -> 14
      [] key = "Z" -> 10
      [] key = "X" -> 0
      [] key = "C" -> 11
      [] key = "V" -> 15
      [] OTHER -> 254

\* What the host may answer to get_keys_pressed(), is_key_down(k), rand().
HostKeys == {"X", "Key1", "Space"}
get_keys_pressed == SUBSET HostKeys
keys_down == SUBSET HostKeys
is_key_down(held, key) == key \in held
rand_u8 == {0, 85, 170, 255}

\* ------------------------------------------------------------------ tick
\* tick with wrapping subtraction and no test for zero.
tick_Wrapping(m) ==
    [m EXCEPT !.deelay = AsU8(@ + 255), !.sound_timer = AsU8(@ + 255)]

tick(m) ==
    LET decay_speed == 1
        d == IF m.deelay > 0
             THEN (IF m.deelay < decay_speed THEN 0 ELSE m.deelay - decay_speed)
             ELSE m.deelay
        s == IF m.sound_timer > 1
             THEN (IF m.sound_timer < decay_speed THEN 0 ELSE m.sound_timer - decay_speed)
             ELSE m.sound_timer
    IN [m EXCEPT !.deelay = d, !.sound_timer = s]

\* ------------------------------------------------------------------ exec
\* Each arm of exec, as the set of machines it can leave: one machine,
\* except where the host answers a query or the build decides (overflow).
Clear(m) ==
    {[m EXCEPT !.screen = [y \in 0..(ScreenHeight - 1) |->
                             [x \in 0..(ScreenWidth - 1) |-> 0]]]}

LoadNormalRegister(m, register, value) == {[m EXCEPT !.v[register] = value]}

LoadIndexRegister(m, value) == {[m EXCEPT !.i = value]}

SkipOnXeqV(m, register, value) ==
    {[m EXCEPT !.pc = @ + 2 * (IF m.v[register] = value THEN 1 ELSE 0)]}

SkipOnXneqV(m, register, value) ==
    {[m EXCEPT !.pc = @ + 2 * (IF m.v[register] # value THEN 1 ELSE 0)]}

SkipOnXeqY(m, x_register, y_register) ==
    {[m EXCEPT !.pc = @ + 2 * (IF m.v[x_register] = m.v[y_register] THEN 1 ELSE 0)]}

\* SkipOnXneqY that skips when the two registers are equal.
SkipOnXneqY_Inverted(m, x_register, y_register) ==
    {[m EXCEPT !.pc = @ + 2 * (IF m.v[x_register] = m.v[y_register] THEN 1 ELSE 0)]}

SkipOnXneqY(m, x_register, y_register) ==
    {[m EXCEPT !.pc = @ + 2 * (IF m.v[x_register] # m.v[y_register] THEN 1 ELSE 0)]}

SetXtoY(m, x_register, y_register) ==
    {[m EXCEPT !.v[x_register] = m.v[y_register]]}

SetXtoXorY(m, x_register, y_register) ==
    {[m EXCEPT !.v[x_register] = BitOr(@, m.v[y_register])]}

SetXtoXandY(m, x_register, y_register) ==
    {[m EXCEPT !.v[x_register] = BitAnd(@, m.v[y_register])]}

SetXtoXxorY(m, x_register, y_register) ==
    {[m EXCEPT !.v[x_register] = BitXor(@, m.v[y_register])]}

\* AddYtoX with the carry tested on the truncated sum.
AddYtoX_TruncatedCarry(m, x_register, y_register) ==
    LET value == AsU8(m.v[x_register] + m.v[y_register])
        m1 == [m EXCEPT !.v[x_register] = value]
        m2 == [m1 EXCEPT !.v[15] = 0]
    IN {IF value > 255 THEN [m2 EXCEPT !.v[15] = 1] ELSE m2}

AddYtoX(m, x_register, y_register) ==
    LET value == m.v[x_register] + m.v[y_register]
        m1 == [m EXCEPT !.v[x_register] = AsU8(value)]
        m2 == [m1 EXCEPT !.v[15] = 0]
    IN {IF value > 255 THEN [m2 EXCEPT !.v[15] = 1] ELSE m2}

\* u8::overflowing_sub: the wrapped difference and whether it wrapped.
overflowing_sub(a, b) == <<(a - b) % 256, a < b>>

SubYfromX(m, x_register, y_register) ==
    LET r == overflowing_sub(m.v[x_register], m.v[y_register])
        m1 == [m EXCEPT !.v[x_register] = r[1]]
        m2 == [m1 EXCEPT !.v[15] = 1]
    IN {IF r[2] THEN [m2 EXCEPT !.v[15] = 0] ELSE m2}

SetXtoYshiftRightOnce(m, x_register, y_register) ==
    LET m1 == [m EXCEPT !.v[x_register] = m.v[y_register]]
        m2 == [m1 EXCEPT !.v[15] = BitAnd(m1.v[x_register], 1)]
    IN {[m2 EXCEPT !.v[x_register] = Shr(@, 1)]}

SetXtoYshiftLeftOnce(m, x_register, y_register) ==
    LET m1 == [m EXCEPT !.v[x_register] = m.v[y_register]]
        m2 == [m1 EXCEPT !.v[15] = BitAnd(Shr(m1.v[x_register], 7), 1)]
    IN {[m2 EXCEPT !.v[x_register] = AsU8(@ * 2)]}

\* SetXtoYMinusX with the operands in SubYfromX's order.
SetXtoYMinusX_Swapped(m, x_register, y_register) ==
    LET r == overflowing_sub(m.v[x_register], m.v[y_register])
        m1 == [m EXCEPT !.v[x_register] = r[1]]
        m2 == [m1 EXCEPT !.v[15] = 1]
    IN {IF r[2] THEN [m2 EXCEPT !.v[15] = 0] ELSE m2}

SetXtoYMinusX(m, x_register, y_register) ==
    LET r == overflowing_sub(m.v[y_register], m.v[x_register])
        m1 == [m EXCEPT !.v[x_register] = r[1]]
        m2 == [m1 EXCEPT !.v[15] = 1]
    IN {IF r[2] THEN [m2 EXCEPT !.v[15] = 0] ELSE m2}

AddToNormalRegister(m, register, value) ==
    {[m EXCEPT !.v[register] = AsU8(@ + value)]}

JumpByRegister(m, address) == {[m EXCEPT !.pc = address + m.v[0]]}

LoadRegisterWithRandom(m, register, value) ==
    {[m EXCEPT !.v[register] = BitAnd(value, random_value)] : random_value \in rand_u8}

\* PlotPixel setting pixels (OR) where the code toggles them (XOR).
PlotPixel_Or(m, sprite_data, x, y, x_start, y_start) ==
    IF y + y_start >= ScreenHeight \/ x + x_start >= ScreenWidth
    THEN m
    ELSE LET bit_value == IF BitAnd(sprite_data, 2 ^ (7 - x)) # 0 THEN 1 ELSE 0
             prev_pixel_value == m.screen[y + y_start][x + x_start]
             m1 == [m EXCEPT !.screen[y + y_start][x + x_start] = BitOr(@, bit_value)]
         IN IF prev_pixel_value = 1 /\ bit_value = 1
            THEN [m1 EXCEPT !.v[15] = 1]
            ELSE m1

\* PlotPixel wrapping around the edges where the code clips.
PlotPixel_Wraps(m, sprite_data, x, y, x_start, y_start) ==
    LET row == (y + y_start) % ScreenHeight
        col == (x + x_start) % ScreenWidth
        bit_value == IF BitAnd(sprite_data, 2 ^ (7 - x)) # 0 THEN 1 ELSE 0
        prev_pixel_value == m.screen[row][col]
        m1 == [m EXCEPT !.screen[row][col] = BitXor(@, bit_value)]
    IN IF prev_pixel_value = 1 /\ m1.screen[row][col] = 0
       THEN [m1 EXCEPT !.v[15] = 1]
       ELSE m1

\* One pass of the inner loop of DrawSprite: pixel x of sprite row y.
PlotPixel(m, sprite_data, x, y, x_start, y_start) ==
    IF y + y_start >= ScreenHeight \/ x + x_start >= ScreenWidth
    THEN m
    ELSE LET bit_value == IF BitAnd(sprite_data, 2 ^ (7 - x)) # 0 THEN 1 ELSE 0
             prev_pixel_value == m.screen[y + y_start][x + x_start]
             m1 == [m EXCEPT !.screen[y + y_start][x + x_start] = BitXor(@, bit_value)]
         IN IF prev_pixel_value = 1 /\ m1.screen[y + y_start][x + x_start] = 0
            THEN [m1 EXCEPT !.v[15] = 1]
            ELSE m1

RECURSIVE DrawRow(_, _, _, _, _, _)
DrawRow(m, sprite_data, x, y, x_start, y_start) ==
    IF x >= 8 THEN m
    ELSE DrawRow(PlotPixel(m, sprite_data, x, y, x_start, y_start),
                 sprite_data, x + 1, y, x_start, y_start)

\* The outer loop from row y on; reading ram past its end panics.
RECURSIVE DrawRows(_, _, _, _, _)
DrawRows(m, y, num_bytes, x_start, y_start) ==
    IF y >= num_bytes THEN [m EXCEPT !.screen_update = TRUE]
    ELSE IF m.i + y >= MemSize THEN Panic(m)
    ELSE DrawRows(DrawRow(m, m.ram[m.i + y], 0, y, x_start, y_start),
                  y + 1, num_bytes, x_start, y_start)

DrawSprite(m, x_register, y_register, num_bytes) ==
    LET x_start == m.v[x_register] % ScreenWidth
        y_start == m.v[y_register] % ScreenHeight
    IN {DrawRows([m EXCEPT !.v[15] = 0], 0, num_bytes, x_start, y_start)}

\* WaitUserInput that is satisfied by any non-empty set of held keys.
WaitUserInput_AnyKey(m, register) ==
    { IF Cardinality(keys_pressed) = 0
      THEN [m EXCEPT !.pressed = keys_pressed, !.pc = @ - 2]
      ELSE [m EXCEPT !.pressed = keys_pressed,
                     !.v[register] = keyboard_to_keypad(CHOOSE key \in keys_pressed : TRUE)]
      : keys_pressed \in get_keys_pressed }

WaitUserInput(m, register) ==
    { IF Cardinality(keys_pressed) # 1
      THEN [m EXCEPT !.pressed = keys_pressed, !.pc = @ - 2]
      ELSE [m EXCEPT !.pressed = keys_pressed,
                     !.v[register] =
                         keyboard_to_keypad(CHOOSE key \in keys_pressed : TRUE)]
      : keys_pressed \in get_keys_pressed }

LoadFont(m, value) == {[m EXCEPT !.i = FontBase + 5 * value]}

SkipIfPressed(m, register) ==
    LET key_to_check == keypad_to_keyboard(m.v[register])
    IN {IF is_key_down(held, key_to_check)
        THEN [m EXCEPT !.pressed = held, !.pc = @ + 2]
        ELSE [m EXCEPT !.pressed = held]
        : held \in keys_down}

SkipNotPressed(m, register) ==
    LET key_to_check == keypad_to_keyboard(m.v[register])
    IN {IF ~is_key_down(held, key_to_check)
        THEN [m EXCEPT !.pressed = held, !.pc = @ + 2]
        ELSE [m EXCEPT !.pressed = held]
        : held \in keys_down}

Jump(m, address) == {[m EXCEPT !.pc = address]}

\* Return that carries on as a no-op when there is nothing to pop.
Return_NoGuard(m) ==
    IF Len(m.stack) = 0 THEN {m}
    ELSE {[m EXCEPT !.pc = m.stack[Len(m.stack)],
                    !.stack = SubSeq(m.stack, 1, Len(m.stack) - 1)]}

\* Return taking the oldest return address instead of the newest.
Return_PopsOldest(m) ==
    IF Len(m.stack) = 0 THEN {Panic(m)}
    ELSE {[m EXCEPT !.pc = m.stack[1], !.stack = Tail(m.stack)]}

Return(m) ==
    IF Len(m.stack) = 0 THEN {Panic(m)}
    ELSE {[m EXCEPT !.pc = m.stack[Len(m.stack)],
                    !.stack = SubSeq(m.stack, 1, Len(m.stack) - 1)]}

SubRoutine(m, address) ==
    {[m EXCEPT !.stack = Append(@, m.pc), !.pc = address]}

StoreDeelayInRegister(m, register) == {[m EXCEPT !.v[register] = m.deelay]}

SetDeelayFromRegister(m, register) == {[m EXCEPT !.deelay = m.v[register]]}

SetSoundTimerFromRegister(m, register) == {[m EXCEPT !.sound_timer = m.v[register]]}

\* self.i += ...: a u16 sum past 65535 panics in a build with overflow
\* checks and wraps in one without.
AddRegisterToIndex(m, register) ==
    LET sum == m.i + m.v[register]
    IN IF sum > 65535 THEN {Panic(m), [m EXCEPT !.i = AsU16(sum)]}
       ELSE {[m EXCEPT !.i = sum]}

\* FillLoop leaving the index register where it was.
RECURSIVE FillLoop_NoAdvance(_, _, _)
FillLoop_NoAdvance(m, register, last_register) ==
    IF register > last_register THEN m
    ELSE IF m.i + register >= MemSize THEN Panic(m)
    ELSE FillLoop_NoAdvance([m EXCEPT !.v[register] = m.ram[m.i + register]],
                            register + 1, last_register)

RECURSIVE FillLoop(_, _, _)
FillLoop(m, register, last_register) ==
    IF register > last_register THEN [m EXCEPT !.i = m.i + last_register + 1]
    ELSE IF m.i + register >= MemSize THEN Panic(m)
    ELSE FillLoop([m EXCEPT !.v[register] = m.ram[m.i + register]],
                  register + 1, last_register)

FillRegisters(m, last_register) == {FillLoop(m, 0, last_register)}

\* StoreLoop over 0..last_register without its last register.
RECURSIVE StoreLoop_Exclusive(_, _, _)
StoreLoop_Exclusive(m, register, last_register) ==
    IF register >= last_register THEN [m EXCEPT !.i = m.i + last_register + 1]
    ELSE IF m.i + register >= MemSize THEN Panic(m)
    ELSE StoreLoop_Exclusive([m EXCEPT !.ram[m.i + register] = m.v[register]],
                             register + 1, last_register)

RECURSIVE StoreLoop(_, _, _)
StoreLoop(m, register, last_register) ==
    IF register > last_register THEN [m EXCEPT !.i = m.i + last_register + 1]
    ELSE IF m.i + register >= MemSize THEN Panic(m)
    ELSE StoreLoop([m EXCEPT !.ram[m.i + register] = m.v[register]],
                   register + 1, last_register)

StoreRegistersInMemmory(m, last_register) == {StoreLoop(m, 0, last_register)}

\* StoreRegisterInBCD with the tens digit not reduced modulo 100 first.
StoreRegisterInBCD_Tens(m, register) ==
    IF m.i + 2 >= MemSize THEN {Panic(m)}
    ELSE {[m EXCEPT !.ram[m.i] = m.v[register] \div 100,
                    !.ram[m.i + 1] = m.v[register] \div 10,
                    !.ram[m.i + 2] = m.v[register] % 10]}

StoreRegisterInBCD(m, register) ==
    IF m.i >= MemSize THEN {Panic(m)}
    ELSE LET m1 == [m EXCEPT !.ram[m.i] = m.v[register] \div 100]
         IN IF m.i + 1 >= MemSize THEN {Panic(m1)}
            ELSE LET m2 == [m1 EXCEPT !.ram[m.i + 1] = (m.v[register] % 100) \div 10]
                 IN IF m.i + 2 >= MemSize THEN {Panic(m2)}
                    ELSE {[m2 EXCEPT !.ram[m.i + 2] = m.v[register] % 10]}

\* ------------------------------------------------------------ run_opcode
\* Report ending the run, as a panic!("unknown opcode") would.
Report_Panics(m, text) == {Panic([m EXCEPT !.diag = text])}

Report(m, text) == {[m EXCEPT !.diag = text]}

run_opcode(m0, opcode) ==
    LET m == [m0 EXCEPT !.diag = ""]
        top == BitAnd(opcode, 61440)
        nnn == BitAnd(opcode, 4095)
        x_register == BitAnd(Shr(opcode, 8), 15)
        y_register == BitAnd(Shr(opcode, 4), 15)
        low == BitAnd(opcode, 15)
        value == BitAnd(opcode, 255)
    IN CASE top = 0 ->
              IF nnn = 224 THEN Clear(m)
              ELSE IF nnn = 238 THEN Return(m)
              ELSE Report(m, "Ignored")
         [] top = 4096 -> Jump(m, nnn)
         [] top = 8192 -> SubRoutine(m, nnn)
         [] top = 12288 -> SkipOnXeqV(m, x_register, value)
         [] top = 16384 -> SkipOnXneqV(m, x_register, value)
         [] top = 20480 ->
              IF low = 0 THEN SkipOnXeqY(m, x_register, y_register) ELSE {m}
         [] top = 24576 -> LoadNormalRegister(m, x_register, value)
         [] top = 28672 -> AddToNormalRegister(m, x_register, value)
         [] top = 32768 ->
              CASE low = 0 -> SetXtoY(m, x_register, y_register)
                [] low = 1 -> SetXtoXorY(m, x_register, y_register)
                [] low = 2 -> SetXtoXandY(m, x_register, y_register)
                [] low = 3 -> SetXtoXxorY(m, x_register, y_register)
                [] low = 4 -> AddYtoX(m, x_register, y_register)
                [] low = 5 -> SubYfromX(m, x_register, y_register)
                [] low = 6 -> SetXtoYshiftRightOnce(m, x_register, y_register)
                [] low = 7 -> SetXtoYMinusX(m, x_register, y_register)
                [] low = 14 -> SetXtoYshiftLeftOnce(m, x_register, y_register)
                [] OTHER -> {m}
         [] top = 36864 ->
              IF low = 0 THEN SkipOnXneqY(m, x_register, y_register) ELSE {m}
         [] top = 40960 -> LoadIndexRegister(m, nnn)
         [] top = 45056 -> JumpByRegister(m, nnn)
         [] top = 49152 -> LoadRegisterWithRandom(m, x_register, value)
         [] top = 53248 -> DrawSprite(m, x_register, y_register, low)
         [] top = 57344 ->
              CASE value = 161 -> SkipNotPressed(m, x_register)
                [] value = 158 -> SkipIfPressed(m, x_register)
                [] OTHER -> Report(m, "Unsupported key pressed instruction")
         [] top = 61440 ->
              CASE value = 7 -> StoreDeelayInRegister(m, x_register)
                [] value = 10 -> WaitUserInput(m, x_register)
                [] value = 21 -> SetDeelayFromRegister(m, x_register)
                [] value = 24 -> SetSoundTimerFromRegister(m, x_register)
                [] value = 30 -> AddRegisterToIndex(m, x_register)
                [] value = 41 -> LoadFont(m, x_register)
                [] value = 51 -> StoreRegisterInBCD(m, x_register)
                [] value = 85 -> StoreRegistersInMemmory(m, x_register)
                [] value = 101 -> FillRegisters(m, x_register)
                [] OTHER -> Report(m, "Unsupported instruction found")

\* ----------------------------------------------------------- start_cycle
\* fetch reading the two bytes low byte first.
fetch_LittleEndian(m) == m.ram[m.pc] + m.ram[m.pc + 1] * 256

\* The opcode at pc, big-endian; reading ram past its end panics.
fetch(m) == m.ram[m.pc] * 256 + m.ram[m.pc + 1]

start_cycle(m) ==
    IF m.pc >= MemSize \/ m.pc + 1 >= MemSize THEN {Panic(m)}
    ELSE run_opcode([m EXCEPT !.pc = @ + 2], fetch(m))

\* ---------------------------------------------------------------- state
Self ==
    [ v |-> v, i |-> i, pc |-> pc, ram |-> ram, deelay |-> deelay,
      sound_timer |-> sound_timer, screen |-> screen,
      screen_update |-> screen_update, stack |-> stack,
      panicked |-> panicked, diag |-> diag, pressed |-> pressed ]

Becomes(m) ==
    /\ v' = m.v
    /\ i' = m.i
    /\ pc' = m.pc
    /\ ram' = m.ram
    /\ deelay' = m.deelay
    /\ sound_timer' = m.sound_timer
    /\ screen' = m.screen
    /\ screen_update' = m.screen_update
    /\ stack' = m.stack
    /\ panicked' = m.panicked
    /\ diag' = m.diag
    /\ pressed' = m.pressed

\* A run of n calls of start_cycle (the host loop itself never ends).
StartsFor(m, n) ==
    /\ v = m.v
    /\ i = m.i
    /\ pc = m.pc
    /\ ram = m.ram
    /\ deelay = m.deelay
    /\ sound_timer = m.sound_timer
    /\ screen = m.screen
    /\ screen_update = m.screen_update
    /\ stack = m.stack
    /\ panicked = m.panicked
    /\ diag = m.diag
    /\ pressed = m.pressed
    /\ hist = << >>
    /\ budget = n

Starts(m) == StartsFor(m, MaxSteps)

\* hist: for each start_cycle so far, where it fetched, what it fetched
\* and the registers, index register and call stack it started from.
Executed ==
    [ at |-> pc,
      opcode |-> IF pc + 1 < MemSize THEN fetch(Self) ELSE 0,
      v |-> v, i |-> i, stack |-> stack ]

\* -------------------------------------------------------------- actions
Tick ==
    /\ ~panicked
    /\ Becomes(tick(Self))
    /\ UNCHANGED <<hist, budget>>

StartCycle ==
    /\ ~panicked
    /\ Len(hist) < budget
    /\ \E m \in start_cycle(Self) : Becomes(m)
    /\ hist' = Append(hist, Executed)
    /\ UNCHANGED budget

Next == Tick \/ StartCycle

\* ------------------------------------------------------------ ROM images
\* An instruction's two bytes from its four nibbles, and the instructions
\* the ROM families below are written in.
Ins(n1, n2, n3, n4) == <<n1 * 16 + n2, n3 * 16 + n4>>
LD(x, nn) == Ins(6, x, nn \div 16, nn % 16)
LDI(nnn) == Ins(10, nnn \div 256, (nnn \div 16) % 16, nnn % 16)
ALU(x, y, n) == Ins(8, x, y, n)
JP(nnn) == Ins(1, nnn \div 256, (nnn \div 16) % 16, nnn % 16)
CALL(nnn) == Ins(2, nnn \div 256, (nnn \div 16) % 16, nnn % 16)
RET == Ins(0, 0, 14, 14)
DRW(x, y, n) == Ins(13, x, y, n)
BCD(x) == Ins(15, x, 3, 3)
STORE(n) == Ins(15, n, 5, 5)
LOAD(n) == Ins(15, n, 6, 5)

\* The ROM file that puts each chunk <<address, bytes>> at its address
\* (the file starts at 0x200; the bytes between chunks are zero).
RomOf(chunks) ==
    LET Top(c) == c[1] + Len(c[2]) - 1
        end == CHOOSE e \in {Top(c) : c \in chunks} :
                   \A c \in chunks : Top(c) <= e
    IN [k \in 1..(end - RomBase + 1) |->
          LET a == RomBase + k - 1
          IN IF \E c \in chunks : a >= c[1] /\ a <= Top(c)
             THEN LET c == CHOOSE c \in chunks : a >= c[1] /\ a <= Top(c)
                  IN c[2][a - c[1] + 1]
             ELSE 0]

\* Register values and register nibbles the families choose from.
ByteSamples == {0, 1, 2, 127, 128, 129, 254, 255}
RegSamples == {0, 1, 15}
FlagOps == {4, 5, 6, 7, 14}

\* VF, VX and VY loaded, then one flag-producing 8XYn.
AluRoms ==
    { LD(15, f) \o LD(x, a) \o LD(y, b) \o ALU(x, y, n) :
        f \in {0, 255}, x \in RegSamples, y \in RegSamples,
        a \in ByteSamples, b \in ByteSamples, n \in FlagOps }

InitAlu == \E rom_data \in AluRoms : Starts(new(rom_data))
SpecAlu == InitAlu /\ [][Next]_vars

\* ---------------------------------------------------- call/return ROMs
\* Nesting depth of the call ROMs.
MaxDepth == 3
SubBases == {528, 768, 3840}
Sub(base, k) == base + 8 * k

\* main calls subroutine 1 and spins; subroutine k (after pad loads) calls
\* subroutine k + 1 and returns; the deepest one only returns.
NestRom(d, pad, base) ==
    RomOf({<<RomBase, CALL(Sub(base, 1)) \o JP(RomBase + 2)>>} \cup
          { <<Sub(base, k),
              (IF pad = 1 THEN LD(k, 7) ELSE << >>) \o
              (IF k < d THEN CALL(Sub(base, k + 1)) ELSE << >>) \o RET>>
            : k \in 1..d })

\* main calls subroutine 1, then subroutine 2, which calls 1 again.
TwiceRom(base) ==
    RomOf({ <<RomBase, CALL(Sub(base, 1)) \o CALL(Sub(base, 2)) \o JP(RomBase + 4)>>,
            <<Sub(base, 1), RET>>,
            <<Sub(base, 2), CALL(Sub(base, 1)) \o RET>> })

FlowRoms ==
    { NestRom(d, pad, base) : d \in 1..MaxDepth, pad \in {0, 1}, base \in SubBases }
    \cup { TwiceRom(base) : base \in SubBases }
    \cup { RET }

Init == \E rom_data \in FlowRoms : Starts(new(rom_data))
Spec == Init /\ [][Next]_vars

\* ------------------------------------------------------------ timer ROMs
\* V0 and V1 loaded, then FX15 (delay := V0) and FX18 (sound := V1).
TimerSamples == {0, 1, 2, 3, 255}

TimerRoms ==
    { LD(0, d) \o LD(1, t) \o Ins(15, 0, 1, 5) \o Ins(15, 1, 1, 8) :
        d \in TimerSamples, t \in TimerSamples }

InitTimer == \E rom_data \in TimerRoms : Starts(new(rom_data))
SpecTimer == InitTimer /\ [][Next]_vars

\* ------------------------------------------------------------- draw ROMs
\* VX, VY and I loaded, a draw, VX and VY loaded again, the same draw; the
\* sprite is the 15 bytes after the code or the font.
SpriteData == <<255, 129, 60, 15, 240, 1, 128, 0, 170, 85, 24, 231, 102, 153, 255>>
DrawRegs == {<<0, 1>>, <<15, 1>>, <<1, 15>>, <<3, 3>>}
DrawHeights == {0, 1, 5, 15}
InsidePositions == {<<0, 0>>, <<5, 17>>, <<56, 17>>, <<120, 49>>}
EdgePositions == {<<60, 30>>, <<63, 31>>, <<124, 62>>, <<57, 18>>}
DrawPositions ==
    { <<p, p>> : p \in InsidePositions \cup EdgePositions }
    \cup { <<<<0, 0>>, q>> : q \in EdgePositions }
    \cup { <<<<60, 30>>, <<0, 0>>>> }

DrawRom(r, pq, n, sprite) ==
    LD(r[1], pq[1][1]) \o LD(r[2], pq[1][2]) \o LDI(sprite) \o DRW(r[1], r[2], n)
    \o LD(r[1], pq[2][1]) \o LD(r[2], pq[2][2]) \o DRW(r[1], r[2], n)
    \o SpriteData

DrawRoms ==
    { DrawRom(r, pq, n, sprite) :
        r \in DrawRegs, pq \in DrawPositions, n \in DrawHeights,
        sprite \in {RomBase + 14, FontBase} }

InitDraw == \E rom_data \in DrawRoms : Starts(new(rom_data))
SpecDraw == InitDraw /\ [][Next]_vars

\* -------------------------------------------------------------- BCD ROMs
\* VX and I loaded, then FX33; the last address leaves I + 2 outside ram.
BcdAddresses == {0, 768, 4093, 4094}

BcdRoms ==
    { LD(x, value) \o LDI(address) \o BCD(x) :
        x \in {0, 7, 15}, value \in Byte, address \in BcdAddresses }

InitBcd == \E rom_data \in BcdRoms : Starts(new(rom_data))
SpecBcd == InitBcd /\ [][Next]_vars

\* ------------------------------------------------------- bulk store ROMs
\* V0 and Vr loaded, I := base, FN55, V0 and Vr overwritten, I := base
\* again, FN65.  The bases are the font, free ram and the top of ram.
BulkValues == {0, 66, 255}
BulkBases == {80, 768, 4080}

BulkRom(r, a, b, n, base) ==
    LD(0, a) \o LD(r, b) \o LDI(base) \o STORE(n)
    \o LD(0, 238) \o LD(r, 17) \o LDI(base) \o LOAD(n)

BulkRoms ==
    { BulkRom(r, a, b, n, base) :
        r \in {1, 15}, a \in BulkValues, b \in BulkValues, n \in Reg,
        base \in BulkBases }

InitBulk == \E rom_data \in BulkRoms : Starts(new(rom_data))
SpecBulk == InitBulk /\ [][Next]_vars

\* ================================================================ claims
\* The fields of an opcode, and the last start_cycle of a run.
OpTop(op) == op \div 4096
OpX(op) == (op \div 256) % 16
OpY(op) == (op \div 16) % 16
OpN(op) == op % 16
OpNN(op) == op % 256
OpNNN(op) == op % 4096
IsOpF(op, nn) == OpTop(op) = 15 /\ OpNN(op) = nn

Ran == Len(hist) > 0
Last == hist[Len(hist)]
LastIsAlu(n) == Ran /\ OpTop(Last.opcode) = 8 /\ OpN(Last.opcode) = n

\* A step of tick: start_cycle alone adds to hist.
Ticked == hist' = hist

\* C2: each tick takes exactly 1 off the delay timer if it is nonzero and,
\* independently, exactly 1 off the sound timer if it is nonzero, for every
\* timer value 1..255, the value 1 included.
C2_TickDecrementsBoth ==
    [][Ticked =>
          /\ deelay' = (IF deelay > 0 THEN deelay - 1 ELSE deelay)
          /\ sound_timer' = (IF sound_timer > 0 THEN sound_timer - 1 ELSE sound_timer)]_vars

\* C3: after 8XY4 with pre-values a = VX and b = VY, VF is 1 if a + b > 255
\* and 0 otherwise, and for X other than 15 VX is (a + b) mod 256.
C3_AddCarry ==
    LastIsAlu(4) =>
        LET x == OpX(Last.opcode)
            a == Last.v[x]
            b == Last.v[OpY(Last.opcode)]
        IN /\ v[15] = (IF a + b > 255 THEN 1 ELSE 0)
           /\ (x # 15 => v[x] = (a + b) % 256)

\* An add that carried, and one that did not clear a stale flag by luck.
C3_Witness ==
    /\ LastIsAlu(4)
    /\ OpX(Last.opcode) = 0
    /\ Last.v[0] + Last.v[OpY(Last.opcode)] = 256
    /\ v[0] = 0
    /\ v[15] = 1

\* C4: after 8XY5 (minuend VX, subtrahend VY) and 8XY7 (minuend VY,
\* subtrahend VX), VF is 0 if minuend < subtrahend and 1 otherwise, and for
\* X other than 15 VX is (minuend - subtrahend) mod 256.
C4_SubBorrow ==
    (LastIsAlu(5) \/ LastIsAlu(7)) =>
        LET x == OpX(Last.opcode)
            y == OpY(Last.opcode)
            a == IF OpN(Last.opcode) = 5 THEN Last.v[x] ELSE Last.v[y]
            b == IF OpN(Last.opcode) = 5 THEN Last.v[y] ELSE Last.v[x]
        IN /\ v[15] = (IF a < b THEN 0 ELSE 1)
           /\ (x # 15 => v[x] = (a - b + 256) % 256)

\* An 8XY7 that borrowed: VY - VX with VY < VX.
C4_Witness ==
    /\ LastIsAlu(7)
    /\ OpX(Last.opcode) = 0
    /\ Last.v[OpY(Last.opcode)] = 1
    /\ Last.v[0] = 2
    /\ v[0] = 255
    /\ v[15] = 0

\* C5: after 8XY6 with pre-value s = VY, VF is bit 0 of s, for X other
\* than 15 VX is s >> 1, and VY keeps s when Y differs from X and from 15.
C5_ShiftRight ==
    LastIsAlu(6) =>
        LET x == OpX(Last.opcode)
            y == OpY(Last.opcode)
            s == Last.v[y]
        IN /\ v[15] = s % 2
           /\ (x # 15 => v[x] = s \div 2)
           /\ ((y # x /\ y # 15) => v[y] = s)

\* A start_cycle step that ran to its end, and what it fetched.
Cycled == hist' # hist /\ ~panicked'
Fetched == fetch(Self)

\* Bit x (0 is the leftmost pixel) of a sprite byte, and the draw origin.
SpriteBit(sprite_data, x) == (sprite_data \div (2 ^ (7 - x))) % 2
OriginX(op) == v[OpX(op)] % 64
OriginY(op) == v[OpY(op)] % 32

\* Whether the draw about to run erases a lit pixel inside the grid.
Collides(op) ==
    \E y \in 0..(OpN(op) - 1), x \in 0..7 :
        /\ OriginY(op) + y < 32
        /\ OriginX(op) + x < 64
        /\ SpriteBit(ram[i + y], x) = 1
        /\ screen[OriginY(op) + y][OriginX(op) + x] = 1

FlagProducing(op) ==
    \/ OpTop(op) = 8 /\ OpN(op) \in {4, 5, 6, 7, 14}
    \/ OpTop(op) = 13

\* The flag each flag-producing instruction is to leave in VF.
FlagOutcome(op) ==
    LET a == v[OpX(op)]
        b == v[OpY(op)]
    IN CASE OpTop(op) = 13 -> IF Collides(op) THEN 1 ELSE 0
         [] OpN(op) = 4 -> IF a + b > 255 THEN 1 ELSE 0
         [] OpN(op) = 5 -> IF a < b THEN 0 ELSE 1
         [] OpN(op) = 6 -> b % 2
         [] OpN(op) = 7 -> IF b < a THEN 0 ELSE 1
         [] OTHER -> b \div 128

\* C6: after every flag-producing instruction (8XY4, 8XY5, 8XY6, 8XY7,
\* 8XYE, DXYN), for every X and Y including X = 15, VF holds that
\* instruction's flag outcome, which is 0 or 1.
C6_FlagWrittenLast ==
    [][(Cycled /\ FlagProducing(Fetched)) =>
          (v'[15] = FlagOutcome(Fetched) /\ v'[15] \in {0, 1})]_vars

\* The program counter and call stack that start_cycle number k left.
PostPc(k) == IF k < Len(hist) THEN hist[k + 1].at ELSE pc
PostStack(k) == IF k < Len(hist) THEN hist[k + 1].stack ELSE stack

IsCall(k) == OpTop(hist[k].opcode) = 2
IsReturn(k) == hist[k].opcode = 238 /\ Len(hist[k].stack) > 0

\* Calls less returns among the first k instructions of the run.
Depth(k) ==
    Cardinality({j \in 1..k : IsCall(j)}) - Cardinality({j \in 1..k : IsReturn(j)})

\* The call a return answers: the latest earlier call made at the depth
\* the return comes back to.
Matches(c, r) ==
    /\ c < r
    /\ IsCall(c)
    /\ Depth(c - 1) = Depth(r)
    /\ \A d \in (c + 1)..(r - 1) : ~(IsCall(d) /\ Depth(d - 1) = Depth(r))

\* C1: every return sets the program counter to the address after its
\* matching call and leaves the call stack as it was before that call, so
\* N nested calls followed by N returns unwind in reverse call order.
C1_CallReturnBalanced ==
    \A r \in 1..Len(hist) :
        IsReturn(r) =>
            \E c \in 1..(r - 1) :
                /\ Matches(c, r)
                /\ PostPc(r) = hist[c].at + 2
                /\ PostStack(r) = hist[c].stack

\* Three nested calls, each from a different place, then three returns.
C1_Witness ==
    /\ Len(hist) >= 6
    /\ \E n \in 3..(Len(hist) - 3) :
          /\ \A k \in (n + 1)..(n + 3) : IsReturn(k)
          /\ Cardinality({c \in 1..n : IsCall(c)}) = 3
          /\ PostPc(n + 3) = RomBase + 2
          /\ PostStack(n + 3) = << >>
          /\ PostPc(n + 1) # PostPc(n + 2)

\* The grid cells a draw may touch: the sprite's rows and columns from the
\* origin on, cut off at the bottom and right edges.
InWindow(op, row, col) ==
    /\ OriginY(op) <= row
    /\ row < OriginY(op) + OpN(op)
    /\ row < 32
    /\ OriginX(op) <= col
    /\ col < OriginX(op) + 8
    /\ col < 64

\* C8: a draw changes only cells inside its clipped window, and VF is 1
\* exactly when a sprite bit inside the grid erased a lit pixel: bits past
\* column 63 or row 31 change nothing and raise no collision.
C8_DrawClips ==
    [][(Cycled /\ OpTop(Fetched) = 13) =>
          /\ \A row \in 0..31, col \in 0..63 :
                ~InWindow(Fetched, row, col) => screen'[row][col] = screen[row][col]
          /\ v'[15] = (IF Collides(Fetched) THEN 1 ELSE 0)]_vars

IsDraw(k) == OpTop(hist[k].opcode) = 13

\* A draw at (60, 30) whose sprite has bits past both edges, over pixels
\* lit at (0, 0): nothing wrapped onto them and no collision was raised.
C8_Witness ==
    /\ Ran
    /\ IsDraw(Len(hist))
    /\ OpN(Last.opcode) = 5
    /\ Last.v[OpX(Last.opcode)] % 64 = 60
    /\ Last.v[OpY(Last.opcode)] % 32 = 30
    /\ ram[Last.i] = 255
    /\ ram[Last.i + 2] # 0
    /\ screen[0][0] = 1
    /\ screen[30][60] = 1
    /\ v[15] = 0

\* Where draw number k of the run put its sprite, and the sprite it read.
DrawnAt(k) ==
    <<hist[k].v[OpX(hist[k].opcode)] % 64, hist[k].v[OpY(hist[k].opcode)] % 32>>
SpriteRows(k) == [y \in 0..(OpN(hist[k].opcode) - 1) |-> ram[hist[k].i + y]]

\* The run's first two draws are one sprite, wholly inside the grid and
\* with a set bit, drawn twice at one place with I and memory unchanged,
\* and the second has just run.
DrewTwice(d1, d2) ==
    /\ d1 < d2
    /\ d2 = Len(hist)
    /\ IsDraw(d1)
    /\ IsDraw(d2)
    /\ \A k \in 1..(d2 - 1) : IsDraw(k) => k = d1
    /\ OpN(hist[d1].opcode) = OpN(hist[d2].opcode)
    /\ hist[d1].i = hist[d2].i
    /\ \A k \in (d1 + 1)..(d2 - 1) :
          ~IsOpF(hist[k].opcode, 85) /\ ~IsOpF(hist[k].opcode, 51)
    /\ hist[d1].i + OpN(hist[d1].opcode) <= MemSize
    /\ DrawnAt(d1) = DrawnAt(d2)
    /\ DrawnAt(d1)[1] + 8 <= 64
    /\ DrawnAt(d1)[2] + OpN(hist[d1].opcode) <= 32
    /\ \E y \in 0..(OpN(hist[d1].opcode) - 1) : SpriteRows(d1)[y] # 0

\* C7: on a blank framebuffer, a sprite inside the grid with a set bit
\* drawn twice at the same place leaves every pixel cleared and VF = 1
\* after the second draw, and VF = 0 after the first.
C7_DrawTwiceClears ==
    \A d1 \in 1..Len(hist), d2 \in 1..Len(hist) :
        (~panicked /\ DrewTwice(d1, d2)) =>
            /\ \A row \in 0..31, col \in 0..63 : screen[row][col] = 0
            /\ v[15] = 1
            /\ hist[d1 + 1].v[15] = 0

\* The 15-row sprite drawn twice, through VF as the X register.
C7_Witness ==
    /\ ~panicked
    /\ \E d1 \in 1..Len(hist) :
          /\ DrewTwice(d1, Len(hist))
          /\ OpN(Last.opcode) = 15
          /\ OpX(Last.opcode) = 15
          /\ DrawnAt(d1) = <<5, 17>>
          /\ v[15] = 1

\* C9: FX33 with I + 2 inside memory writes VX div 100, (VX div 10) mod 10
\* and VX mod 10 to memory[I], memory[I + 1], memory[I + 2] and changes no
\* other memory cell, no register and not the index register.
C9_StoreBcd ==
    [][(Cycled /\ IsOpF(Fetched, 51) /\ i + 2 < MemSize) =>
          LET value == v[OpX(Fetched)]
          IN /\ ram' = [ram EXCEPT ![i] = value \div 100,
                                   ![i + 1] = (value \div 10) % 10,
                                   ![i + 2] = value % 10]
             /\ v' = v
             /\ i' = i]_vars

\* 254 stored as 2, 5, 4 in the last three cells of memory.
C9_Witness ==
    /\ Ran
    /\ IsOpF(Last.opcode, 51)
    /\ Last.v[OpX(Last.opcode)] = 254
    /\ Last.i = 4093
    /\ ram[4093] = 2
    /\ ram[4094] = 5
    /\ ram[4095] = 4
    /\ ~panicked

\* The registers that start_cycle number k left.
PostV(k) == IF k < Len(hist) THEN hist[k + 1].v ELSE v

\* Instruction s is FN55 and a later instruction l is FN65 with the same N
\* from the same base, with no write to memory in between.
RoundTrip(s, l) ==
    /\ s < l
    /\ IsOpF(hist[s].opcode, 85)
    /\ IsOpF(hist[l].opcode, 101)
    /\ OpX(hist[s].opcode) = OpX(hist[l].opcode)
    /\ hist[s].i = hist[l].i
    /\ hist[s].i + OpX(hist[s].opcode) < MemSize
    /\ \A k \in (s + 1)..(l - 1) :
          ~IsOpF(hist[k].opcode, 85) /\ ~IsOpF(hist[k].opcode, 51)

\* C10: FN55 with I = B, then any overwriting of registers 0..N, then I
\* set back to B and FN65, restores in every register 0..N the value it
\* had before the store.
C10_BulkRoundTrip ==
    \A s \in 1..Len(hist), l \in 1..Len(hist) :
        RoundTrip(s, l) =>
            \A k \in 0..OpX(hist[s].opcode) : PostV(l)[k] = hist[s].v[k]

\* All sixteen registers round-tripped at the top of memory, V0 and VF
\* overwritten in between.
C10_Witness ==
    \E s \in 1..Len(hist), l \in 1..Len(hist) :
        /\ RoundTrip(s, l)
        /\ OpX(hist[s].opcode) = 15
        /\ hist[s].i = 4080
        /\ hist[s].v[0] = 66
        /\ hist[s].v[15] = 255
        /\ hist[l].v[0] = 238
        /\ hist[l].v[15] = 17
        /\ PostV(l)[0] = 66
        /\ PostV(l)[15] = 255

\* C11: FN55 and FN65 both leave I at its pre-value plus N + 1; FN55
\* changes exactly the memory cells I..I+N (to V0..VN) and FN65 changes
\* exactly the registers 0..N (to memory[I..I+N]).
C11_BulkAdvancesIndex ==
    [][(Cycled /\ (IsOpF(Fetched, 85) \/ IsOpF(Fetched, 101))) =>
          LET n == OpX(Fetched)
          IN /\ i' = i + n + 1
             /\ IsOpF(Fetched, 85) =>
                   /\ v' = v
                   /\ ram' = [a \in 0..(MemSize - 1) |->
                                IF a >= i /\ a <= i + n THEN v[a - i] ELSE ram[a]]
             /\ IsOpF(Fetched, 101) =>
                   /\ ram' = ram
                   /\ v' = [k \in Reg |-> IF k <= n THEN ram[i + k] ELSE v[k]]]_vars

\* FF65 from 4080 has just run: I is 4096, one past the top of memory, and
\* V0 and VF hold what FF55 stored.
C11_Witness ==
    /\ Ran
    /\ ~panicked
    /\ Last.opcode = 65381
    /\ Last.i = 4080
    /\ i = 4096
    /\ v[0] = 66
    /\ v[15] = 255
    /\ Last.v[0] = 238

\* -------------------------------------------------- unknown-opcode ROMs
\* The opcodes that decode to no instruction.
Unknown(op) ==
    \/ OpTop(op) = 0 /\ op # 224 /\ op # 238
    \/ OpTop(op) \in {5, 9} /\ OpN(op) # 0
    \/ OpTop(op) = 8 /\ OpN(op) \in {8, 9, 10, 11, 12, 13, 15}
    \/ OpTop(op) = 14 /\ OpNN(op) \notin {158, 161}
    \/ OpTop(op) = 15 /\ OpNN(op) \notin {7, 10, 21, 24, 30, 41, 51, 85, 101}

\* Opcodes around every decode decision: 0NNN near 00E0 and 00EE, every
\* low nibble of 5XYn, 8XYn and 9XYn, every low byte of EXnn and FXnn.
OpcodeSamples ==
    {0, 1, 14, 223, 225, 237, 239, 480, 750, 3808, 4095}
    \cup { t * 4096 + xy * 16 + n : t \in {5, 8, 9}, xy \in {0, 1, 242}, n \in 0..15 }
    \cup { 14 * 4096 + nn : nn \in Byte }
    \cup { 15 * 4096 + x * 256 + nn : x \in {0, 1}, nn \in Byte }

\* V0 and V1 differ, the screen is lit, the sound timer and the call stack
\* are not empty; then the opcode, then a load that shows the run goes on.
UnknownRom(op) ==
    LD(0, 5) \o LD(1, 2) \o LDI(FontBase) \o DRW(0, 1, 5) \o Ins(15, 1, 1, 8)
    \o CALL(RomBase + 12) \o <<op \div 256, op % 256>> \o LD(2, 51)

UnknownRoms == { UnknownRom(op) : op \in {o \in OpcodeSamples : Unknown(o)} }

InitUnknown == \E rom_data \in UnknownRoms : Starts(new(rom_data))
SpecUnknown == InitUnknown /\ [][Next]_vars

\* C12: a start_cycle that fetches an unknown opcode changes nothing but
\* the program counter, which becomes the fetch address plus 2, and the
\* machine goes on running.
C12_UnknownIsNoOp ==
    [][(hist' # hist /\ Unknown(Fetched)) =>
          /\ ~panicked'
          /\ pc' = pc + 2
          /\ UNCHANGED <<v, i, ram, stack, deelay, sound_timer, screen,
                         screen_update>>]_vars

\* 5001 (no instruction; 5000 would have skipped, V0 = V0) was stepped
\* over and the load after it has run.
C12_Witness ==
    /\ Len(hist) = 8
    /\ hist[7].opcode = 20481
    /\ hist[7].at = RomBase + 12
    /\ hist[8].at = RomBase + 14
    /\ v[2] = 51
    /\ stack = <<RomBase + 12>>
    /\ ~panicked

\* C13: every start_cycle that fetches an unknown opcode writes a
\* diagnostic report.
C13_UnknownIsReported ==
    [][(hist' # hist /\ Unknown(Fetched)) => diag' # ""]_vars

\* C14: executing 00EE with an empty call stack aborts the machine: the step
\* ends in the error state with the stack still empty and the program counter
\* only moved past the instruction (no invented return address), and from the
\* error state no tick and no instruction changes anything any more.
C14_EmptyReturnIsFatal ==
    [][/\ ~panicked
       /\ (hist' # hist /\ Fetched = 238 /\ stack = << >>) =>
             /\ panicked'
             /\ stack' = << >>
             /\ pc' = pc + 2
             /\ UNCHANGED <<v, i, ram, deelay, sound_timer, screen, screen_update>>]_vars

C14_Witness ==
    /\ panicked
    /\ Ran
    /\ Last.opcode = 238
    /\ Last.stack = << >>
    /\ stack = << >>

\* ------------------------------------------------------------ key ROMs
\* Set the delay timer, wait for a key into one register, load a marker,
\* wait again into another register.
WaitRegs == {0, 3, 15}
WaitDelays == {0, 3}
WAIT(x) == Ins(15, x, 0, 10)
KeyRom(x, d) == LD(0, d) \o Ins(15, 0, 1, 5) \o WAIT(x) \o LD(2, 51) \o WAIT(1)
KeyRoms == { KeyRom(x, d) : x \in WaitRegs, d \in WaitDelays }
InitKeys == \E rom_data \in KeyRoms : Starts(new(rom_data))
SpecKeys == InitKeys /\ [][Next]_vars

\* The keypad digit a host key stands for, read off the keypad table.
HasKeypadValue(key) == \E d \in 0..15 : keypad_to_keyboard(d) = key
KeypadOf(key) == CHOOSE d \in 0..15 : keypad_to_keyboard(d) = key
TheKey(keys) == CHOOSE key \in keys : TRUE

\* C15: a step that executes FX0A while the host reports zero or several
\* keys leaves registers, index, program counter, memory, stack, timers and
\* screen exactly as they were (so the same FX0A is fetched next); a step in
\* which the host reports exactly one key moves the program counter past the
\* instruction, changes nothing but VX, and VX is that key's keypad digit.
C15_WaitKeyReenters ==
    [][(hist' # hist /\ IsOpF(Fetched, 10)) =>
          /\ ~panicked'
          /\ UNCHANGED <<i, ram, stack, deelay, sound_timer, screen, screen_update>>
          /\ IF Cardinality(pressed') # 1
             THEN UNCHANGED <<v, pc>>
             ELSE /\ pc' = pc + 2
                  /\ \A r \in Reg : r # OpX(Fetched) => v'[r] = v[r]
                  /\ HasKeypadValue(TheKey(pressed')) =>
                        v'[OpX(Fetched)] = KeypadOf(TheKey(pressed'))]_vars

\* Waited twice at the same address (with ticks in between), then went on
\* with key 1 in V3.
C15_Witness ==
    /\ Len(hist) >= 5
    /\ hist[3].opcode = 62218
    /\ hist[4].at = hist[3].at
    /\ hist[4].opcode = 62218
    /\ hist[5].at = hist[3].at + 2
    /\ hist[5].v[3] = 1
    /\ hist[3].v[3] = 0
    /\ deelay = 1
    /\ ~panicked

\* C20: whenever FX0A completes (the program counter moves past it), VX holds
\* a keypad digit 0..15; in particular a single held key that has no keypad
\* value does not complete the wait.
C20_WaitStoresKeypadDigit ==
    [][(hist' # hist /\ IsOpF(Fetched, 10) /\ pc' = pc + 2) =>
          /\ v'[OpX(Fetched)] \in 0..15
          /\ HasKeypadValue(TheKey(pressed'))]_vars

\* C16: a tick leaves a timer that is 0 at 0, for the delay timer and for the
\* sound timer, and a timer only ever grows in a step that executes FX15
\* (delay) or FX18 (sound), so no timer wraps from 0 to 255.
C16_ZeroTimerStays ==
    [][/\ Ticked => /\ deelay = 0 => deelay' = 0
                    /\ sound_timer = 0 => sound_timer' = 0
       /\ deelay' > deelay => hist' # hist /\ IsOpF(Fetched, 21)
       /\ sound_timer' > sound_timer => hist' # hist /\ IsOpF(Fetched, 24)]_vars

\* The sound timer was set to 3 and ticked down while the delay timer,
\* set to 0, was ticked along with it and stayed 0.
C16_Witness ==
    /\ Len(hist) >= 4
    /\ hist[3].opcode = 61461
    /\ hist[4].opcode = 61720
    /\ v[0] = 0
    /\ v[1] = 3
    /\ deelay = 0
    /\ sound_timer = 1

\* ------------------------------------------------------ recursive ROMs
\* Set the delay timer, then a ring of n calls: each calls the next one and
\* the last calls the first, so every executed instruction nests one deeper.
MaxCallSteps == 20
CallChains == {1, 2, 3}
RecurseDelays == {0, 2, 5}
RecurseRom(n, d) ==
    LD(0, d) \o Ins(15, 0, 1, 5) \o
    [ j \in 1..(2 * n) |->
        LET k == (j + 1) \div 2
            target == IF k = n THEN RomBase + 4 ELSE RomBase + 4 + 2 * k
        IN CALL(target)[((j - 1) % 2) + 1] ]
RecurseRoms == { RecurseRom(n, d) : n \in CallChains, d \in RecurseDelays }
InitStack == \E rom_data \in RecurseRoms : StartsFor(new(rom_data), MaxCallSteps)
SpecStack == InitStack /\ [][Next]_vars

\* C17: the call stack never holds more than 16 return addresses.
C17_StackBounded == Len(stack) <= 16

\* ------------------------------------------------------------ jump ROMs
\* Load V0, set the delay timer, then jump (1NNN), call (2NNN) or jump plus
\* V0 (BNNN) to an address near the top of memory.
JumpOps == {1, 2, 11}
JumpTargets == {4088, 4094, 4095}
JumpOffsets == {0, 1, 255}
Far(op, nnn) == <<op * 16 + nnn \div 256, nnn % 256>>
JumpRom(op, nnn, v0) == LD(0, v0) \o Ins(15, 0, 1, 5) \o Far(op, nnn)
JumpRoms == { JumpRom(op, nnn, v0) : op \in JumpOps, nnn \in JumpTargets, v0 \in JumpOffsets }
InitJump == \E rom_data \in JumpRoms : Starts(new(rom_data))
SpecJump == InitJump /\ [][Next]_vars

\* C18: whenever an instruction is fetched, both pc and pc + 1 are addresses
\* inside the 4096-byte memory.
C18_FetchInMemory == [][hist' # hist => pc + 1 < MemSize]_vars

\* C19: every cell an executed instruction reaches through the index register
\* is inside memory: I..I+2 for FX33, I..I+X for FX55 and FX65, I..I+N-1 for
\* DXYN.
C19_IndexInMemory ==
    [][(hist' # hist /\ pc + 1 < MemSize) =>
          /\ IsOpF(Fetched, 51) => i + 2 < MemSize
          /\ (IsOpF(Fetched, 85) \/ IsOpF(Fetched, 101)) => i + OpX(Fetched) < MemSize
          /\ (OpTop(Fetched) = 13 /\ OpN(Fetched) > 0) => i + OpN(Fetched) - 1 < MemSize]_vars

\* ------------------------------------------------------------ skip ROMs
\* Registers, index, screen, sound timer and stack made non-trivial, then
\* one skip instruction followed by two loads that show which way it went.
SkipValues == {0, 1, 7, 254}
SkipOthers == {0, 1, 7}
SkipOps ==
    { Ins(3, 0, nn \div 16, nn % 16) : nn \in SkipOthers } \cup
    { Ins(4, 0, nn \div 16, nn % 16) : nn \in SkipOthers } \cup
    { Ins(5, 0, 1, 0), Ins(5, 1, 1, 0), Ins(9, 0, 1, 0), Ins(9, 1, 1, 0),
      Ins(14, 0, 9, 14), Ins(14, 0, 10, 1) }
SkipRom(op, a, b) ==
    LD(0, a) \o LD(1, b) \o LDI(FontBase) \o DRW(0, 1, 5) \o Ins(15, 1, 1, 8) \o
    CALL(RomBase + 12) \o op \o LD(2, 51) \o LD(3, 52)
SkipRoms == { SkipRom(op, a, b) : op \in SkipOps, a \in SkipValues, b \in SkipOthers }
InitSkip == \E rom_data \in SkipRoms : Starts(new(rom_data))
SpecSkip == InitSkip /\ [][Next]_vars

IsSkip(op) ==
    \/ OpTop(op) \in {3, 4}
    \/ OpTop(op) \in {5, 9} /\ OpN(op) = 0
    \/ OpTop(op) = 14 /\ OpNN(op) \in {158, 161}

\* A key standing for keypad digit d is among the held keys.
KeyHeld(d, held) == d \in 0..15 /\ \E key \in held : keyboard_to_keypad(key) = d

\* The condition of skip instruction op over registers regs and held keys.
SkipCondition(op, regs, held) ==
    CASE OpTop(op) = 3 -> regs[OpX(op)] = OpNN(op)
      [] OpTop(op) = 4 -> regs[OpX(op)] # OpNN(op)
      [] OpTop(op) = 5 -> regs[OpX(op)] = regs[OpY(op)]
      [] OpTop(op) = 9 -> regs[OpX(op)] # regs[OpY(op)]
      [] OpTop(op) = 14 /\ OpNN(op) = 158 -> KeyHeld(regs[OpX(op)], held)
      [] OTHER -> ~KeyHeld(regs[OpX(op)], held)

\* C21: a step that executes 3XNN, 4XNN, 5XY0, 9XY0, EX9E or EXA1 ends with
\* pc at the fetch address plus 4 when the instruction's condition holds and
\* plus 2 when it does not, and leaves registers, index, memory, stack,
\* timers and screen unchanged.
C21_SkipTouchesOnlyPc ==
    [][(hist' # hist /\ IsSkip(Fetched)) =>
          /\ ~panicked'
          /\ pc' = pc + (IF SkipCondition(Fetched, v, pressed') THEN 4 ELSE 2)
          /\ UNCHANGED <<v, i, ram, stack, deelay, sound_timer, screen, screen_update>>]_vars

\* 9010 with V0 = 7 and V1 = 1 skipped the load of V2 and went on to load V3,
\* inside a subroutine and with a sprite on the screen.
C21_Witness ==
    /\ Len(hist) = 8
    /\ hist[7].opcode = 36880
    /\ hist[7].v[0] = 7
    /\ hist[7].v[1] = 1
    /\ hist[8].at = hist[7].at + 4
    /\ v[2] = 0
    /\ v[3] = 52
    /\ stack = <<RomBase + 12>>
    /\ \E y \in DOMAIN screen : \E x \in DOMAIN screen[y] : screen[y][x] # 0
    /\ ~panicked

\* ------------------------------------------------------------ font ROMs
\* A digit loaded into a register, the delay timer set from it, then FX29
\* on that register.
FontRegs == {0, 1, 3, 15}
FontRom(x, d) == LD(x, d) \o Ins(15, x, 1, 5) \o Ins(15, x, 2, 9)
FontRoms == { FontRom(x, d) : x \in FontRegs, d \in 0..15 }
InitFont == \E rom_data \in FontRoms : Starts(new(rom_data))
SpecFont == InitFont /\ [][Next]_vars

\* C22: FX29 with a digit d in 0..15 held in VX sets the index register to
\* 0x50 + 5 * d, the first byte of glyph d.
C22_LoadFontUsesRegisterValue ==
    [][(hist' # hist /\ IsOpF(Fetched, 41) /\ v[OpX(Fetched)] \in 0..15) =>
          i' = FontBase + 5 * v[OpX(Fetched)]]_vars

\* C24: after 8XYE with pre-value s = VY, VF is bit 7 of s, for X other
\* than 15 VX is (2 * s) mod 256, and VY keeps s when Y differs from X and
\* from 15.
C24_ShiftLeft ==
    LastIsAlu(14) =>
        LET x == OpX(Last.opcode)
            y == OpY(Last.opcode)
            s == Last.v[y]
        IN /\ v[15] = s \div 128
           /\ (x # 15 => v[x] = (2 * s) % 256)
           /\ ((y # x /\ y # 15) => v[y] = s)

\* ----------------------------------------------------------- fetch ROMs
\* Main sets the delay timer, calls a subroutine and loads V4 on return;
\* the subroutine waits for a key, loads V2 and returns.
FetchRegs == {3, 15}
FetchDelays == {0, 3, 5}
FetchRom(x, d) ==
    LD(0, d) \o Ins(15, 0, 1, 5) \o CALL(RomBase + 8) \o LD(4, 9) \o
    WAIT(x) \o LD(2, 51) \o RET
FetchRoms == { FetchRom(x, d) : x \in FetchRegs, d \in FetchDelays }
InitFetch == \E rom_data \in FetchRoms : Starts(new(rom_data))
SpecFetch == InitFetch /\ [][Next]_vars

\* Instructions that set the program counter themselves.
Redirects(op) ==
    \/ OpTop(op) \in {1, 2, 11}
    \/ op = 238
    \/ IsSkip(op)
    \/ IsOpF(op, 10)

\* C25: a step executes the instruction whose opcode is ram[pc] * 256 +
\* ram[pc + 1] (a 6XNN so formed loads NN into VX); if it does not redirect
\* control the step ends with pc two past the fetch address; a call pushes
\* the fetch address plus 2 and goes to NNN; a return goes to the pushed
\* address; FX0A ends at the fetch address while it waits and two past it
\* when it completes.
C25_FetchBigEndianAdvances ==
    [][(hist' # hist /\ ~panicked') =>
          LET op == ram[pc] * 256 + ram[pc + 1]
          IN /\ OpTop(op) = 6 => v'[OpX(op)] = OpNN(op)
             /\ ~Redirects(op) => pc' = pc + 2
             /\ OpTop(op) = 2 => stack' = Append(stack, pc + 2) /\ pc' = OpNNN(op)
             /\ op = 238 => pc' = stack[Len(stack)]
             /\ IsOpF(op, 10) =>
                   pc' = (IF Cardinality(pressed') # 1 THEN pc ELSE pc + 2)]_vars

\* Called, waited once in vain at 0x208, got a key, loaded V2, returned to
\* 0x206 and loaded V4 there.
C25_Witness ==
    /\ Len(hist) = 8
    /\ hist[3].at = RomBase + 4
    /\ hist[4].at = RomBase + 8
    /\ hist[4].stack = <<RomBase + 6>>
    /\ hist[5].at = RomBase + 8
    /\ hist[6].at = RomBase + 10
    /\ hist[8].at = RomBase + 6
    /\ hist[8].opcode = 25609
    /\ v[2] = 51
    /\ v[4] = 9
    /\ pc = RomBase + 8
    /\ stack = << >>
    /\ ~panicked

\* ------------------------------------------------- looping timer ROMs
\* A timer ROM followed by a loop of two jumps, so that the program runs
\* for ever without touching the timers again.
LoopRoms == { rom \o JP(RomBase + 10) \o JP(RomBase + 8) : rom \in TimerRoms }
InitLoop == \E rom_data \in LoopRoms : Starts(new(rom_data))

\* start_cycle once the log is full: the machine goes on, unlogged.
Spin ==
    /\ ~panicked
    /\ Len(hist) >= budget
    /\ \E m \in start_cycle(Self) : Becomes(m)
    /\ UNCHANGED <<hist, budget>>

NextLive == Tick \/ StartCycle \/ Spin

\* The host loop calls tick whenever 16.67 ms have passed and start_cycle in
\* every iteration, so neither is put off for ever.
SpecTimerLive ==
    /\ InitLoop
    /\ [][NextLive]_vars
    /\ WF_vars(Tick)
    /\ WF_vars(StartCycle)
    /\ WF_vars(Spin)

\* C23: a nonzero delay timer eventually reaches 0 and a nonzero sound timer
\* eventually reaches 0, so the sound-active condition (sound timer > 0)
\* eventually becomes false (the looping timer ROMs write each timer once).
C23_TimersRunOut ==
    /\ (deelay > 0) ~> (deelay = 0)
    /\ (sound_timer > 0) ~> (sound_timer = 0)

====
